---- MODULE Spec2Model ----
(***************************************************************************)
(* Model of the summary-to-speech service (confluencer_backend).           *)
(*                                                                         *)
(* Text is modelled as a sequence of lexical units.  A unit is either a    *)
(* single character (a double quote, a colon, a blank, a full stop, a      *)
(* letter) or an indivisible word the code searches for (sentence, action, *)
(* END_SENTENCE, END_SUMMARY and their lower-case spellings).  The regular *)
(* expressions of parseStructuredScript are translated unit by unit.       *)
(***************************************************************************)
EXTENDS Naturals, Integers, Sequences, FiniteSets, TLC

(* ------------------------------ bounds -------------------------------- *)
\* most blocks of a generated model output
MaxBlocks == 2
\* most pieces of a free-form model output
MaxPieces == 2
\* the documents of earlier revisions a collection starts with, at most
MaxStored == 2
\* arrays up to this length are shuffled with every random draw
MaxDrawn == 3

(* --------------------------- lexical units ---------------------------- *)
QUOTE == "Q"
COLON == ":"
SP    == "_"
CRLF  == "RN"
END_SENTENCE == "END_SENTENCE"
end_sentence == "end_sentence"
END_SUMMARY  == "END_SUMMARY"
end_summary  == "end_summary"

\* \s of the regular expressions and the characters String.trim removes
IsSpace(c) == c \in {SP, CRLF}
\* the class [.!?] of the fallback split
IsPunct(c) == c \in {".", "!", "?"}

(* ------------------------------ JS values ----------------------------- *)
\* A JavaScript value: a string (a sequence of units) or a non-string.
JsString(s) == [type |-> "string", str |-> s]
JsUndefined == [type |-> "undefined", str |-> <<>>]
JsNull      == [type |-> "null", str |-> <<>>]
JsNumber    == [type |-> "number", str |-> <<>>]
JsZero      == [type |-> "zero", str |-> <<>>]
JsObject    == [type |-> "object", str |-> <<>>]

\* ToBoolean: '', 0, null, undefined are falsy
Truthy(v) ==
  CASE v.type = "string" -> v.str # <<>>
    [] v.type \in {"number", "object"} -> TRUE
    [] OTHER -> FALSE

(* --------------------------- String methods --------------------------- *)
\* const x = value; body(x): the value is computed once and named
Let(value, body(_)) == CHOOSE r \in {body(x) : x \in {value}} : TRUE

\* the k-th smallest element of a set of positions
Nth(S, k) == CHOOSE i \in S : Cardinality({j \in S : j < i}) = k - 1

\* String.prototype.trim
Trim(string) ==
  Let(string, LAMBDA s :
    Let({i \in 1..Len(s) : ~IsSpace(s[i])}, LAMBDA solid :
      IF solid = {} THEN <<>>
      ELSE SubSeq(s, Nth(solid, 1), Nth(solid, Cardinality(solid)))))

\* String.prototype.indexOf for a one-unit needle, 1-based; 0 stands for -1
IndexOf(string, unit) ==
  Let(string, LAMBDA s :
    IF \E i \in 1..Len(s) : s[i] = unit
    THEN CHOOSE i \in 1..Len(s) : s[i] = unit /\ \A k \in 1..(i - 1) : s[k] # unit
    ELSE 0)

\* first index >= i of s that is not white space (Len(s)+1 when none): \s*
SkipSpace(s, i) ==
  CHOOSE j \in i..(Len(s) + 1) :
    /\ j = Len(s) + 1 \/ ~IsSpace(s[j])
    /\ \A k \in i..(j - 1) : IsSpace(s[k])

\* Array.prototype.map((p) => p.trim())
MapTrim(array) == Let(array, LAMBDA parts : [i \in 1..Len(parts) |-> Trim(parts[i])])

\* Array.prototype.filter(Boolean) on an array of strings
NonEmptyString(p) == p # <<>>
FilterBoolean(parts) == SelectSeq(parts, NonEmptyString)

\* String.prototype.split for a pattern that matches at the positions
\* starts and whose match at p ends before after(p): the pieces between
\* the matches, in order
SplitAt(s, positions, after(_)) ==
  Let(positions, LAMBDA starts :
    [k \in 1..(Cardinality(starts) + 1) |->
       SubSeq(s,
              IF k = 1 THEN 1 ELSE after(Nth(starts, k - 1)),
              IF k = Cardinality(starts) + 1 THEN Len(s) ELSE Nth(starts, k) - 1)])

\* text.split(/END_SENTENCE\s*/i)
SplitEndSentence(text) ==
  Let(text, LAMBDA s :
    SplitAt(s, {i \in 1..Len(s) : s[i] \in {END_SENTENCE, end_sentence}},
            LAMBDA p : SkipSpace(s, p + 1)))

\* a position where /(?<=[.!?])\s+/ matches: white space right after punctuation
SplitPoint(s, p) == p > 1 /\ p <= Len(s) /\ IsSpace(s[p]) /\ IsPunct(s[p - 1])

\* text.split(/(?<=[.!?])\s+/)
SplitSentences(text) ==
  Let(text, LAMBDA s :
    SplitAt(s, {p \in 1..Len(s) : SplitPoint(s, p)}, LAMBDA p : SkipSpace(s, p)))

\* script.replace(/\r\n/g, ' ')
ReplaceCrlf(string) ==
  Let(string, LAMBDA s : [i \in 1..Len(s) |-> IF s[i] = CRLF THEN SP ELSE s[i]])

(* ------------------------ the field patterns -------------------------- *)
\* result of String.prototype.match: null, or the first capture group
NoMatch == [matched |-> FALSE, group |-> <<>>]
Match(g) == [matched |-> TRUE, group |-> g]

\* index of the opening quote of the value when /"<label>"\s*:\s*"/ matches
\* at position i of part, 0 otherwise
ValueQuoteAt(part, i, label) ==
  IF /\ i + 2 <= Len(part)
     /\ part[i] = QUOTE /\ part[i + 1] = label /\ part[i + 2] = QUOTE
  THEN Let(SkipSpace(part, i + 3), LAMBDA c :
         IF c <= Len(part) /\ part[c] = COLON
         THEN Let(SkipSpace(part, c + 1), LAMBDA q :
                IF q <= Len(part) /\ part[q] = QUOTE THEN q ELSE 0)
         ELSE 0)
  ELSE 0

\* index of the opening quote of the value when
\* /"<label>"\s*:\s*"([^"]*)"/i matches at position i of part, 0 otherwise
MatchAt(part, i, label) ==
  Let(ValueQuoteAt(part, i, label), LAMBDA q :
    IF q # 0 /\ \E k \in (q + 1)..Len(part) : part[k] = QUOTE THEN q ELSE 0)

\* part.match(/"<label>"\s*:\s*"([^"]*)"/i): leftmost match, capture up to
\* the next double quote
FieldMatch(block, label) ==
  Let(block, LAMBDA part :
    Let({MatchAt(part, i, label) : i \in 1..Len(part)} \ {0}, LAMBDA quotes :
      IF quotes = {} THEN NoMatch
      ELSE Let(Nth(quotes, 1), LAMBDA q :
             Let(CHOOSE k \in (q + 1)..Len(part) :
                   part[k] = QUOTE /\ \A m \in (q + 1)..(k - 1) : part[m] # QUOTE,
                 LAMBDA e : Match(SubSeq(part, q + 1, e - 1))))))

(* ------------------------------ entries ------------------------------- *)
\* null, or a string, as the action of an entry
Null == [isNull |-> TRUE, str |-> <<>>]
Str(s) == [isNull |-> FALSE, str |-> s]

Entry(sentence, action) == [sentence |-> sentence, action |-> action]

\* what a call returns: the returned array, or a thrown TypeError
Returned(entries) == [threw |-> FALSE, entries |-> entries]
Thrown == [threw |-> TRUE, entries |-> <<>>]

(* ------------- parseStructuredScript (app.js, part_000) --------------- *)
\* if (!script || typeof script !== 'string') return [];
GuardNoTypeCheck(script) == ~Truthy(script)
GuardRejects(script) == ~Truthy(script) \/ script.type # "string"

\* indexOf('END_SUMMARY') and substring(0, endIdx)
TruncateNever(string) == string
TruncateAtEndSummary(string) ==
  Let(string, LAMBDA text :
    Let(IndexOf(text, END_SUMMARY), LAMBDA endIdx :
      IF endIdx # 0 THEN SubSeq(text, 1, endIdx - 1) ELSE text))

\* text.split(/END_SENTENCE\s*/i).map((p) => p.trim()).filter(Boolean)
BlockParts(text) == FilterBoolean(MapTrim(SplitEndSentence(text)))

\* the body of the loop over the parts: the entry pushed for one part, if any
BlockEntryKeepEmpty(part) ==
  Let(FieldMatch(part, "sentence"), LAMBDA sentenceMatch :
    Let(FieldMatch(part, "action"), LAMBDA actionMatch :
      IF sentenceMatch.matched
      THEN <<Entry(sentenceMatch.group,
                   IF actionMatch.matched THEN Str(actionMatch.group) ELSE Null)>>
      ELSE <<>>))
BlockEntryActionDefault(part) ==
  Let(FieldMatch(part, "sentence"), LAMBDA sentenceMatch :
    Let(FieldMatch(part, "action"), LAMBDA actionMatch :
      IF sentenceMatch.matched /\ Len(sentenceMatch.group) > 0
      THEN <<Entry(sentenceMatch.group, Str(actionMatch.group))>>
      ELSE <<>>))
BlockEntry(part) ==
  Let(FieldMatch(part, "sentence"), LAMBDA sentenceMatch :
    Let(FieldMatch(part, "action"), LAMBDA actionMatch :
      Let(IF sentenceMatch.matched THEN Str(sentenceMatch.group) ELSE Null,
          LAMBDA sentence :
        Let(IF actionMatch.matched THEN Str(actionMatch.group) ELSE Null,
            LAMBDA action :
          IF ~sentence.isNull /\ Len(sentence.str) > 0
          THEN <<Entry(sentence.str, action)>>
          ELSE <<>>))))

\* for (const part of parts) { ... result.push({ sentence, action }) }
StructuredEntries(array) ==
  Let(array, LAMBDA parts :
    Let(SelectSeq([i \in 1..Len(parts) |-> BlockEntry(parts[i])], NonEmptyString),
        LAMBDA pushed : [i \in 1..Len(pushed) |-> pushed[i][1]]))

\* the fallback: split on white space after . ! ?, trim, drop empties
FallbackEntriesUntrimmed(text) ==
  Let(SplitSentences(text), LAMBDA sentences :
    [i \in 1..Len(sentences) |-> Entry(sentences[i], Null)])
FallbackEntries(text) ==
  Let(FilterBoolean(MapTrim(SplitSentences(text))), LAMBDA sentences :
    [i \in 1..Len(sentences) |-> Entry(sentences[i], Null)])

parseStructuredScript(script) ==
  IF GuardRejects(script) THEN Returned(<<>>)
  ELSE IF script.type # "string" THEN Thrown   \* script.trim is not a function
  ELSE Let(TruncateAtEndSummary(Trim(script.str)), LAMBDA text :
         Let(StructuredEntries(BlockParts(text)), LAMBDA result :
           IF Len(result) = 0
           THEN Returned(FallbackEntries(text))
           ELSE Returned(result)))

(* ----------------- parseStructuredScript (part_001) ------------------- *)
\* sentence and action are trimmed; empty sentences are ignored
BlockEntry_part001(part) ==
  Let(FieldMatch(part, "sentence"), LAMBDA sentenceMatch :
    Let(FieldMatch(part, "action"), LAMBDA actionMatch :
      IF sentenceMatch.matched
      THEN Let(Trim(sentenceMatch.group), LAMBDA sentence :
             Let(IF actionMatch.matched THEN Str(Trim(actionMatch.group)) ELSE Null,
                 LAMBDA action :
               IF sentence # <<>> THEN <<Entry(sentence, action)>> ELSE <<>>))
      ELSE <<>>))

StructuredEntries_part001(array) ==
  Let(array, LAMBDA parts :
    Let(SelectSeq([i \in 1..Len(parts) |-> BlockEntry_part001(parts[i])],
                  NonEmptyString),
        LAMBDA pushed : [i \in 1..Len(pushed) |-> pushed[i][1]]))

\* the fallback of this revision splits script, not the truncated text
FallbackEntries_part001(script) ==
  Let(FilterBoolean(MapTrim(SplitSentences(ReplaceCrlf(script)))), LAMBDA fallback :
    [i \in 1..Len(fallback) |-> Entry(fallback[i], Null)])

parseStructuredScript_part001(script) ==
  IF GuardRejects(script) THEN Returned(<<>>)
  ELSE IF script.type # "string" THEN Thrown
  ELSE Let(TruncateAtEndSummary(Trim(script.str)), LAMBDA text :
         Let(StructuredEntries_part001(BlockParts(text)), LAMBDA result :
           IF Len(result) = 0
           THEN Returned(FallbackEntries_part001(script.str))
           ELSE Returned(result)))

(* ---------------- the chat model's outputs (parser inputs) ------------ *)
\* "sentence": "<text>" and "action": "<name>" as the prompt lays them out
SentenceField(text) ==
  <<QUOTE, "sentence", QUOTE, COLON, SP, QUOTE>> \o text \o <<QUOTE>>
ActionField(name) ==
  <<QUOTE, "action", QUOTE, COLON, SP, QUOTE>> \o name \o <<QUOTE>>

\* sentence texts a block may carry: plain, with punctuation, blank, and
\* texts that spell a delimiter
PlainTexts == {<<"a">>, <<"b", ".">>, <<SP>>}
DelimiterTexts == {<<"a", end_sentence>>, <<END_SUMMARY>>}
Texts == PlainTexts \cup DelimiterTexts

\* a block as the chat model means it: an optional sentence field and an
\* optional action field, closed by END_SENTENCE
Blocks ==
  [sentence : {Null} \cup {Str(t) : t \in Texts \cup {<<>>}},
   action : {Null, Str(<<"h">>)}]

RenderBlock(b) ==
  (IF b.sentence.isNull THEN <<>> ELSE SentenceField(b.sentence.str) \o <<CRLF>>)
  \o (IF b.action.isNull THEN <<>> ELSE ActionField(b.action.str) \o <<CRLF>>)
  \o <<END_SENTENCE, CRLF>>

RECURSIVE RenderBlocks(_)
RenderBlocks(bs) ==
  IF bs = <<>> THEN <<>> ELSE RenderBlock(Head(bs)) \o RenderBlocks(Tail(bs))

\* what follows the last block: nothing, END_SUMMARY, or END_SUMMARY and
\* trailing commentary (a block-shaped one, a prose one); "z" occurs only there
Tails == {"none", "end", "end+block", "end+prose"}
RenderTail(t) ==
  CASE t = "none" -> <<>>
    [] t = "end" -> <<END_SUMMARY>>
    [] t = "end+block" ->
         <<END_SUMMARY, CRLF>> \o SentenceField(<<"z">>) \o <<CRLF>>
         \o ActionField(<<"z">>) \o <<CRLF, END_SENTENCE>>
    [] t = "end+prose" -> <<END_SUMMARY, SP, "z", ".", SP, "z", "!">>

\* free-form outputs are concatenations of these pieces
Pieces ==
  {SentenceField(<<"a">>), SentenceField(<<>>), ActionField(<<"h">>),
   <<END_SENTENCE>>, <<END_SUMMARY>>, <<end_summary>>, <<"a", ".", SP>>,
   <<CRLF>>, <<"z", "?", CRLF, "z">>, <<QUOTE>>}

RECURSIVE Concat(_)
Concat(ps) == IF ps = <<>> THEN <<>> ELSE Head(ps) \o Concat(Tail(ps))

NonStrings == {JsUndefined, JsNull, JsNumber, JsZero, JsObject}

ModelOutputs ==
  {[kind |-> "blocks", blocks |-> bs, tail |-> t, pieces |-> <<>>, value |-> JsNull] :
     bs \in UNION {[1..n -> Blocks] : n \in 0..MaxBlocks}, t \in Tails}
  \cup
  {[kind |-> "pieces", blocks |-> <<>>, tail |-> "none", pieces |-> ps, value |-> JsNull] :
     ps \in UNION {[1..n -> Pieces] : n \in 0..MaxPieces}}
  \cup
  {[kind |-> "value", blocks |-> <<>>, tail |-> "none", pieces |-> <<>>, value |-> v] :
     v \in NonStrings}

\* the value handed to parseStructuredScript
RenderOutput(o) ==
  CASE o.kind = "blocks" -> JsString(RenderBlocks(o.blocks) \o RenderTail(o.tail))
    [] o.kind = "pieces" -> JsString(Concat(o.pieces))
    [] OTHER -> o.value

(* ====================================================================== *)
(* The service: POST /summaries of app.js (one narration) and of part_000 *)
(* (one narration per persona).                                           *)
(* ====================================================================== *)
Reqs == {"r1", "r2"}
Personas == <<"Brain", "Girl", "Financer">>
PersonaSet == {"Brain", "Girl", "Financer"}
Slots == PersonaSet \cup {"Single"}
\* app.js narrates once, part_000 once per persona
SlotsOf(rev) == IF rev = "app" THEN {"Single"} ELSE PersonaSet

\* values of the body's text and url fields: undefined, the empty string, a
\* string of blanks, a non-blank string, a number
TextValues == {"absent", "empty", "blank", "words", "number"}
UrlValues == {"absent", "empty", "blank", "link"}
\* !v || typeof v !== 'string' || !v.trim()
MissingFieldNoTypeCheck(v) == v \in {"absent", "empty", "blank"}
MissingField(v) == v \in {"absent", "empty", "blank", "number"}
\* ToBoolean of a field
TruthyField(v) == v \in {"blank", "words", "link", "number"}

\* scripts the chat model may answer with
ScriptTwo ==
  SentenceField(<<"a">>) \o <<CRLF>> \o ActionField(<<"h">>) \o <<CRLF, END_SENTENCE, CRLF>>
  \o SentenceField(<<"b", ".">>) \o <<CRLF, END_SENTENCE, CRLF, END_SUMMARY>>
ScriptOne ==
  SentenceField(<<"b">>) \o <<CRLF, END_SENTENCE, CRLF, END_SUMMARY, SP, "z">>
ScriptProse == <<"a", ".", SP, "b", "!">>
ScriptCut == <<END_SUMMARY, SP, "z", ".">>

\* a chat completion: it throws, or it answers with a message content
ChatThrows == [threw |-> TRUE, content |-> JsNull]
ChatAnswers(c) == [threw |-> FALSE, content |-> c]
ChatOutcomes ==
  {ChatThrows} \cup
  {ChatAnswers(c) : c \in {JsNull, JsString(<<SP>>), JsString(ScriptCut),
                           JsString(ScriptProse), JsString(ScriptOne),
                           JsString(ScriptTwo)}}
PersonaChatOutcomes ==
  {ChatThrows} \cup
  {ChatAnswers(c) : c \in {JsString(ScriptCut), JsString(ScriptOne),
                           JsString(ScriptTwo)}}

\* what an awaited call gives: a text, or a thrown error
Resolved(text) == [threw |-> FALSE, text |-> text]
Rejected == [threw |-> TRUE, text |-> <<>>]

\* resp?.choices?.[0]?.message?.content?.trim() || ''
ContentText(content) ==
  IF content.type = "string" THEN Trim(content.str) ELSE <<>>

\* generateSummary of app.js: a thrown error is caught and '' returned
generateSummaryRethrows(o) ==
  IF o.threw THEN Rejected ELSE Resolved(ContentText(o.content))
generateSummary(o) ==
  IF o.threw THEN Resolved(<<>>) ELSE Resolved(ContentText(o.content))

\* generatePersonaScript of part_000: no catch, the error propagates
generatePersonaScript(o) ==
  IF o.threw THEN Rejected ELSE Resolved(ContentText(o.content))

\* an audio reference of a section: none, `${uuid}.mp3`, or Cloudinary's
\* secure_url; uuidv4() is named by the call that drew it
Absent == [form |-> "absent", id |-> <<>>]
Filename(id) == [form |-> "filename", id |-> id]
SecureUrlOfPosition(id) == [form |-> "secure_url", id |-> <<id[2], id[3]>>]
SecureUrl(id) == [form |-> "secure_url", id |-> id]

\* const section = { text: sentence, key }; if (action) section.action = action;
Section(sentence, key, action) ==
  [text |-> sentence, key |-> key, audio |-> Absent,
   action |-> IF ~action.isNull /\ action.str # <<>> THEN action ELSE Null]

\* the fields SectionSchema requires: src/models/story.js for app.js,
\* the schema of unnamed/part_002 (lines 150-160) for part_000
RequiredFields(rev) == IF rev = "app" THEN {"text", "audio"} ELSE {"text", "key"}
HasField(section, f) ==
  CASE f = "text" -> section.text # <<>>
    [] f = "key" -> section.key.form # "absent"
    [] f = "audio" -> section.audio.form # "absent"

\* mongoose validation of the document handed to Story.create
Validates(rev, story) ==
  /\ story.title # <<>>
  /\ \A s \in SlotsOf(rev) : \A i \in 1..Len(story.sections[s]) :
       \A f \in RequiredFields(rev) : HasField(story.sections[s][i], f)

NoEntries == [s \in Slots |-> <<>>]
IdleTask == [phase |-> "idle", out |-> <<>>]
\* calls issued on behalf of a request, per service; late counts those of
\* them issued after the request's response was sent
NoCalls == [fetch |-> 0, chat |-> 0, tts |-> 0, upload |-> 0, create |-> 0, late |-> 0]
NoSummary == [st |-> "none", str |-> <<>>]

\* the awaited calls of the handlers (write: fs.writeFileSync of part_000)
Awaited == {"fetch", "tts", "write", "upload", "create", "find", "presign"}

\* what a run may meet: the bodies clients send, the answers of the chat
\* model for each narration, and the awaited calls that can fail
AnyEnvironment ==
  [bodies |-> TextValues \X UrlValues,
   chat |-> [s \in Slots |-> IF s = "Single" THEN ChatOutcomes
                                              ELSE PersonaChatOutcomes],
   faulty |-> Awaited]

\* GET /summaries: the clients that list the collection
Readers == {"g1"}

(* ------------------------------- state -------------------------------- *)
VARIABLES
  modelOutput,   \* the output the chat model composed
  script,        \* the value passed to parseStructuredScript
  parser,        \* "none", or the revision of the parser that ran
  returned,      \* what the call returned
  revision,      \* the deployed revision: "app" (src/app.js) or "part_000"
  clients,       \* the requests that may arrive
  pc,            \* per request: the await its handler is suspended at
  body,          \* per request: the text and url fields of its body
  inputContent,  \* per request: the content sent to the chat model
  summary,       \* per request and narration: the chat model's answer
  parsed,        \* per request and narration: the parsed entries
  task,          \* per request and narration: progress of synthesis and upload
  title,         \* per request: the title computed
  response,      \* per request: the statuses it was answered with
  calls,         \* per request: the outgoing calls made for it
  bucket,        \* the audio objects in storage
  stories,       \* the Story collection
  environment,   \* the bodies, chat answers and failures this run may meet
  query,         \* per reader: the confluencer query parameter
  persona,       \* per reader: the persona the parameter resolved to
  gpc,           \* per reader: the await its GET handler is suspended at
  docs,          \* per reader: the documents Story.find gave it
  listed         \* per reader: the statuses and bodies it was answered with

parserVars == <<modelOutput, script, parser, returned>>
readVars == <<query, persona, gpc, docs, listed>>
postVars ==
  <<revision, clients, environment, pc, body, inputContent, summary, parsed,
    task, title, response, calls, bucket, stories>>
serviceVars ==
  <<revision, clients, environment, pc, body, inputContent, summary, parsed,
    task, title, response, calls, bucket, stories, readVars>>
vars == <<parserVars, serviceVars>>

\* the service before any request
InitService(rev, cs, env, stored) ==
  /\ revision = rev
  /\ clients = cs
  /\ environment = env
  /\ query = [g \in Readers |-> JsUndefined]
  /\ persona = [g \in Readers |-> "Brain"]
  /\ gpc = [g \in Readers |-> "idle"]
  /\ docs = [g \in Readers |-> [snapshot |-> <<>>, result |-> <<>>]]
  /\ listed = [g \in Readers |-> <<>>]
  /\ pc = [r \in Reqs |-> "idle"]
  /\ body = [r \in Reqs |-> [text |-> "absent", url |-> "absent"]]
  /\ inputContent = [r \in Reqs |-> "none"]
  /\ summary = [r \in Reqs |-> [s \in Slots |-> NoSummary]]
  /\ parsed = [r \in Reqs |-> NoEntries]
  /\ task = [r \in Reqs |-> [s \in Slots |-> IdleTask]]
  /\ title = [r \in Reqs |-> <<>>]
  /\ response = [r \in Reqs |-> <<>>]
  /\ calls = [r \in Reqs |-> NoCalls]
  /\ bucket = {}
  /\ stories = stored

(* ------------- the parser applied to the model's outputs -------------- *)
InitParser ==
  /\ modelOutput \in ModelOutputs
  /\ script = RenderOutput(modelOutput)
  /\ parser = "none"
  /\ returned = Returned(<<>>)
  /\ InitService("app", {}, AnyEnvironment, <<>>)

\* parseStructuredScript of app.js (the same text as part_000's)
Parse ==
  /\ parser = "none"
  /\ parser' = "app"
  /\ returned' = parseStructuredScript(script)
  /\ UNCHANGED <<modelOutput, script, serviceVars>>

\* parseStructuredScript of the earlier revision part_001
Parse_part001 ==
  /\ parser = "none"
  /\ parser' = "part_001"
  /\ returned' = parseStructuredScript_part001(script)
  /\ UNCHANGED <<modelOutput, script, serviceVars>>

NextParser == Parse \/ Parse_part001

SpecParser == InitParser /\ [][NextParser]_vars

(* ------------------------- POST /summaries ---------------------------- *)
\* an awaited call settles: it resolves, or it rejects if it can fail
Settles(what) == IF what \in environment.faulty THEN BOOLEAN ELSE {TRUE}

\* res.status(status).json(...) ends the handler
RespondAndGoOn(r, status) ==
  /\ response' = [response EXCEPT ![r] = Append(@, status)]
  /\ pc' = pc
Respond(r, status) ==
  /\ response' = [response EXCEPT ![r] = Append(@, status)]
  /\ pc' = [pc EXCEPT ![r] = "done"]

Called(r, what, n) ==
  calls' = [calls EXCEPT ![r][what] = @ + n,
                         ![r]["late"] = IF pc[r] = "done" THEN @ + n ELSE @]

\* out.push(section)
Unshift(out, section) == <<section>> \o out
Push(out, section) == Append(out, section)

\* the first call of a narration: generateSpeech of its first sentence, or
\* nothing to do for an empty script
StartTask(entries) ==
  IF entries = <<>> THEN [phase |-> "done", out |-> <<>>]
  ELSE [phase |-> "tts", out |-> <<>>]

Running(entriesBySlot, rev) ==
  Cardinality({s \in SlotsOf(rev) : entriesBySlot[s] # <<>>})

\* the handler up to its first await: validation, then the URL fetch or the
\* chat call(s)
Post(r) ==
  /\ r \in clients
  /\ pc[r] = "idle"
  /\ \E text \in TextValues, url \in UrlValues :
       /\ <<text, url>> \in environment.bodies
       /\ body' = [body EXCEPT ![r] = [text |-> text, url |-> url]]
       /\ IF MissingField(text) /\ MissingField(url)
          THEN /\ Respond(r, 400)
               /\ UNCHANGED <<inputContent, summary, calls>>
          ELSE IF ~TruthyField(text) /\ TruthyField(url)
          THEN /\ pc' = [pc EXCEPT ![r] = "fetch"]
               /\ Called(r, "fetch", 1)
               /\ UNCHANGED <<inputContent, summary, response>>
          ELSE /\ pc' = [pc EXCEPT ![r] = "chat"]
               /\ inputContent' = [inputContent EXCEPT ![r] = text]
               /\ summary' = [summary EXCEPT ![r] =
                    [s \in Slots |-> IF s \in SlotsOf(revision)
                                     THEN [st |-> "pending", str |-> <<>>]
                                     ELSE NoSummary]]
               /\ Called(r, "chat", Cardinality(SlotsOf(revision)))
               /\ UNCHANGED response
  /\ UNCHANGED <<parserVars, readVars, revision, clients, environment, parsed, task, title, bucket, stories>>

\* fetch(url) and the extraction settle: the page text goes to the chat
\* model, or the request is answered 400
FetchDone(r) ==
  /\ pc[r] = "fetch"
  /\ \E ok \in Settles("fetch") :
       IF ok
       THEN /\ pc' = [pc EXCEPT ![r] = "chat"]
            /\ inputContent' = [inputContent EXCEPT ![r] = "page"]
            /\ summary' = [summary EXCEPT ![r] =
                 [s \in Slots |-> IF s \in SlotsOf(revision)
                                  THEN [st |-> "pending", str |-> <<>>]
                                  ELSE NoSummary]]
            /\ Called(r, "chat", Cardinality(SlotsOf(revision)))
            /\ UNCHANGED response
       ELSE /\ Respond(r, 400)
            /\ UNCHANGED <<inputContent, summary, calls>>
  /\ UNCHANGED <<parserVars, readVars, revision, clients, environment, body, parsed, task, title, bucket, stories>>

\* parsed[0].sentence || 'Summary'
TitleOf(sentence) == IF sentence # <<>> THEN sentence ELSE <<"Summary">>
\* brainParsed[0]?.sentence: undefined (falsy) for an empty array
LastSentence(entries) == IF entries # <<>> THEN entries[Len(entries)].sentence ELSE <<>>
FirstSentence(entries) == IF entries # <<>> THEN entries[1].sentence ELSE <<>>

Pending == [st |-> "pending", str |-> <<>>]
Answered(text) == [st |-> "done", str |-> text]

\* app.js: generateSummary settles; the summary is checked and parsed, and
\* the loop over the entries calls generateSpeech for the first one
Summarised(r) ==
  /\ revision = "app"
  /\ pc[r] = "chat"
  /\ \E o \in environment.chat["Single"] :
       LET sum == generateSummary(o)
           p == parseStructuredScript(JsString(sum.text))
       IN /\ summary' = [summary EXCEPT ![r]["Single"] = Answered(sum.text)]
          /\ IF sum.threw
             THEN /\ Respond(r, 500)
                  /\ UNCHANGED <<parsed, task, title, calls>>
             ELSE IF sum.text = <<>>
             THEN /\ Respond(r, 502)
                  /\ UNCHANGED <<parsed, task, title, calls>>
             ELSE IF p.threw
             THEN /\ Respond(r, 500)
                  /\ UNCHANGED <<parsed, task, title, calls>>
             ELSE IF Len(p.entries) = 0
             THEN /\ Respond(r, 502)
                  /\ UNCHANGED <<parsed, task, title, calls>>
             ELSE /\ parsed' = [parsed EXCEPT ![r]["Single"] = p.entries]
                  /\ title' = [title EXCEPT ![r] = TitleOf(p.entries[1].sentence)]
                  /\ task' = [task EXCEPT ![r]["Single"] = StartTask(p.entries)]
                  /\ Called(r, "tts", 1)
                  /\ pc' = [pc EXCEPT ![r] = "tts"]
                  /\ UNCHANGED response
  /\ UNCHANGED <<parserVars, readVars, revision, clients, environment, body, inputContent, bucket, stories>>

\* app.js: generateSpeech settles; the local copy is written inside
\* try/catch and the upload to the bucket is sent
SpeechDone(r) ==
  /\ revision = "app"
  /\ pc[r] = "tts"
  /\ \E ok \in Settles("tts") :
       IF ok
       THEN /\ task' = [task EXCEPT ![r]["Single"].phase = "upload"]
            /\ Called(r, "upload", 1)
            /\ pc' = [pc EXCEPT ![r] = "upload"]
            /\ UNCHANGED response
       ELSE /\ task' = [task EXCEPT ![r]["Single"].phase = "failed"]
            /\ Respond(r, 500)
            /\ UNCHANGED calls
  /\ UNCHANGED <<parserVars, readVars, revision, clients, environment, body, inputContent, summary,
                 parsed, title, bucket, stories>>

\* app.js: the PutObject settles; the section is pushed and the loop goes
\* on to the next sentence, or to Story.create after the last one
UploadDone(r) ==
  /\ revision = "app"
  /\ pc[r] = "upload"
  /\ \E ok \in Settles("upload") :
       LET i == Len(task[r]["Single"].out) + 1
           entry == parsed[r]["Single"][i]
           filename == Filename(<<r, "Single", i>>)
           section == Section(entry.sentence, filename, entry.action)
           last == i = Len(parsed[r]["Single"])
       IN IF ok
          THEN /\ bucket' = bucket \cup {filename}
               /\ task' = [task EXCEPT ![r]["Single"] =
                    [phase |-> IF last THEN "done" ELSE "tts",
                     out |-> Push(@.out, section)]]
               /\ Called(r, IF last THEN "create" ELSE "tts", 1)
               /\ pc' = [pc EXCEPT ![r] = IF last THEN "create" ELSE "tts"]
               /\ UNCHANGED response
          ELSE /\ task' = [task EXCEPT ![r]["Single"].phase = "failed"]
               /\ Respond(r, 500)
               /\ UNCHANGED <<calls, bucket>>
  /\ UNCHANGED <<parserVars, readVars, revision, clients, environment, body, inputContent, summary,
                 parsed, title, stories>>

\* part_000: one generatePersonaScript settles.  A rejection rejects the
\* Promise.all; after the last answer the three scripts are parsed, checked,
\* and the three ttsAndUploadSections start
PersonaScriptDone(r, p) ==
  /\ revision = "part_000"
  /\ pc[r] = "chat"
  /\ summary[r][p] = Pending
  /\ \E o \in environment.chat[p] :
       LET g == generatePersonaScript(o)
           scripts == [summary[r] EXCEPT ![p] = Answered(g.text)]
           all == \A q \in PersonaSet : scripts[q].st = "done"
           res == [q \in PersonaSet |-> parseStructuredScript(JsString(scripts[q].str))]
           entries == [s \in Slots |-> IF s \in PersonaSet THEN res[s].entries ELSE <<>>]
       IN IF g.threw
          THEN /\ Respond(r, 500)
               /\ UNCHANGED <<summary, parsed, task, title, calls>>
          ELSE /\ summary' = [summary EXCEPT ![r] = scripts]
               /\ IF ~all
                  THEN UNCHANGED <<pc, response, parsed, task, title, calls>>
                  ELSE IF \E q \in PersonaSet : res[q].threw
                  THEN /\ Respond(r, 500)
                       /\ UNCHANGED <<parsed, task, title, calls>>
                  ELSE IF entries["Brain"] = <<>> /\ entries["Girl"] = <<>>
                  THEN /\ Respond(r, 502)
                       /\ UNCHANGED <<parsed, task, title, calls>>
                  ELSE /\ parsed' = [parsed EXCEPT ![r] = entries]
                       /\ title' = [title EXCEPT ![r] =
                            IF FirstSentence(entries["Brain"]) # <<>>
                            THEN FirstSentence(entries["Brain"])
                            ELSE IF FirstSentence(entries["Girl"]) # <<>>
                            THEN FirstSentence(entries["Girl"])
                            ELSE TitleOf(FirstSentence(entries["Financer"]))]
                       /\ task' = [task EXCEPT ![r] =
                            [s \in Slots |-> IF s \in PersonaSet
                                             THEN StartTask(entries[s]) ELSE @[s]]]
                       /\ Called(r, "tts", Running(entries, "part_000"))
                       /\ pc' = [pc EXCEPT ![r] = "synth"]
                       /\ UNCHANGED response
  /\ UNCHANGED <<parserVars, readVars, revision, clients, environment, body, inputContent, bucket, stories>>

\* a rejected ttsAndUploadSections rejects the Promise.all the handler
\* awaits; the handler answers 500 unless it has answered already
TaskRejectedIgnored(r) == UNCHANGED <<pc, response>>
TaskRejected(r) ==
  IF pc[r] = "synth"
  THEN Respond(r, 500)
  ELSE UNCHANGED <<pc, response>>

\* part_000: generateSpeech of a persona settles; the mp3 is written to the
\* scratch directory (no try/catch) and uploadToCloudinary is called
PersonaSpeechDone(r, p) ==
  /\ revision = "part_000"
  /\ task[r][p].phase = "tts"
  /\ \E outcome \in {"ok"} \cup
                   (IF "tts" \in environment.faulty THEN {"tts fails"} ELSE {}) \cup
                   (IF "write" \in environment.faulty THEN {"write fails"} ELSE {}) :
       IF outcome = "ok"
       THEN /\ task' = [task EXCEPT ![r][p].phase = "upload"]
            /\ Called(r, "upload", 1)
            /\ UNCHANGED <<pc, response>>
       ELSE /\ task' = [task EXCEPT ![r][p].phase = "failed"]
            /\ TaskRejected(r)
            /\ UNCHANGED calls
  /\ UNCHANGED <<parserVars, readVars, revision, clients, environment, body, inputContent, summary,
                 parsed, title, bucket, stories>>

\* every ttsAndUploadSections of the request has returned
AllTasksDone(tasks) == \A q \in PersonaSet : tasks[q].phase = "done"

\* part_000: uploadToCloudinary of a persona settles; the section is pushed
\* to this task's out and the task goes on; when the last task returns the
\* handler calls Story.create
PersonaUploadDone(r, p) ==
  /\ revision = "part_000"
  /\ task[r][p].phase = "upload"
  /\ \E ok \in Settles("upload") :
       LET i == Len(task[r][p].out) + 1
           entry == parsed[r][p][i]
           secureUrl == SecureUrl(<<r, p, i>>)
           section == Section(entry.sentence, secureUrl, entry.action)
           last == i = Len(parsed[r][p])
           tasks == [task[r] EXCEPT ![p] =
                       [phase |-> IF last THEN "done" ELSE "tts",
                        out |-> Push(@.out, section)]]
           resolved == pc[r] = "synth" /\ AllTasksDone(tasks)
       IN IF ok
          THEN /\ bucket' = bucket \cup {secureUrl}
               /\ task' = [task EXCEPT ![r] = tasks]
               /\ calls' = [calls EXCEPT
                    ![r]["tts"] = IF last THEN @ ELSE @ + 1,
                    ![r]["create"] = IF resolved THEN @ + 1 ELSE @,
                    ![r]["late"] = IF pc[r] = "done" /\ ~last THEN @ + 1 ELSE @]
               /\ pc' = [pc EXCEPT ![r] = IF resolved THEN "create" ELSE @]
               /\ UNCHANGED response
          ELSE /\ task' = [task EXCEPT ![r][p].phase = "failed"]
               /\ TaskRejected(r)
               /\ UNCHANGED <<calls, bucket>>
  /\ UNCHANGED <<parserVars, readVars, revision, clients, environment, body, inputContent, summary,
                 parsed, title, stories>>

\* url || null
SourceUrl(url) == IF TruthyField(url) THEN url ELSE "null"

\* the document handed to Story.create
StoryOf(r) ==
  [request |-> r,
   title |-> title[r],
   sections |-> [s \in Slots |-> task[r][s].out],
   sourceUrl |-> IF revision = "app" THEN "absent" ELSE SourceUrl(body[r].url)]

\* Story.create inserts one document at the end of the collection
StoryReplace(collection, doc) ==
  IF collection = <<>> THEN <<doc>>
  ELSE [collection EXCEPT ![Len(collection)] = doc]
StoryCreate(collection, doc) == Append(collection, doc)

\* Story.create settles: the document is validated and inserted and the
\* request answered 201, or the error is caught and answered 500
StoryCreated(r) ==
  /\ pc[r] = "create"
  /\ \E dbOk \in Settles("create") :
       IF dbOk /\ Validates(revision, StoryOf(r))
       THEN /\ stories' = StoryCreate(stories, StoryOf(r))
            /\ Respond(r, 201)
       ELSE /\ Respond(r, 500)
            /\ UNCHANGED stories
  /\ UNCHANGED <<parserVars, readVars, revision, clients, environment, body, inputContent, summary,
                 parsed, task, title, calls, bucket>>

Init ==
  /\ modelOutput = [kind |-> "value", blocks |-> <<>>, tail |-> "none",
                    pieces |-> <<>>, value |-> JsNull]
  /\ script = JsNull
  /\ parser = "none"
  /\ returned = Returned(<<>>)
  /\ \E rev \in {"app", "part_000"} : InitService(rev, {"r1"}, AnyEnvironment, <<>>)

Next ==
  \E r \in Reqs :
    \/ Post(r)
    \/ FetchDone(r)
    \/ Summarised(r)
    \/ SpeechDone(r)
    \/ UploadDone(r)
    \/ \E p \in PersonaSet : PersonaScriptDone(r, p)
    \/ \E p \in PersonaSet : PersonaSpeechDone(r, p)
    \/ \E p \in PersonaSet : PersonaUploadDone(r, p)
    \/ StoryCreated(r)

Spec == Init /\ [][Next]_vars

\* every awaited call settles: the handlers have no timeout of their own
\* and go on when the call resolves or rejects
SpecFair == Spec /\ WF_vars(Next)

(* ----------------- two requests handled concurrently ------------------ *)
\* both clients send a text or a url; each narration's script is one of two, so the
\* two requests can be given different scripts; any awaited call may fail
TwoScripts == {ChatAnswers(JsString(ScriptOne)), ChatAnswers(JsString(ScriptTwo))}
BusyEnvironment ==
  [bodies |-> {<<"words", "absent">>, <<"absent", "link">>},
   chat |-> [s \in Slots |->
               CASE s \in {"Single", "Brain"} -> TwoScripts
                 [] s = "Girl" -> {ChatAnswers(JsString(ScriptOne))}
                 [] OTHER -> {ChatAnswers(JsString(ScriptCut))}],
   faulty |-> Awaited]

InitTwo ==
  /\ modelOutput = [kind |-> "value", blocks |-> <<>>, tail |-> "none",
                    pieces |-> <<>>, value |-> JsNull]
  /\ script = JsNull
  /\ parser = "none"
  /\ returned = Returned(<<>>)
  /\ \E rev \in {"app", "part_000"} : InitService(rev, Reqs, BusyEnvironment, <<>>)

SpecTwo == InitTwo /\ [][Next]_vars

(* ====================================================================== *)
(* Properties of parseStructuredScript, checked under SpecParser.         *)
(* ====================================================================== *)
Contains(s, unit) == \E i \in 1..Len(s) : s[i] = unit
ContainsDelimiter(s) ==
  Contains(s, END_SENTENCE) \/ Contains(s, end_sentence) \/ Contains(s, END_SUMMARY)

Sentences(entries) == [i \in 1..Len(entries) |-> entries[i].sentence]
Actions(entries) == [i \in 1..Len(entries) |-> entries[i].action]

\* the blocks of a generated output that carry a non-empty sentence text
HasSentence(b) == ~b.sentence.isNull /\ b.sentence.str # <<>>
SentenceBlocks(o) == SelectSeq(o.blocks, HasSentence)
BlockTexts(bs) == [i \in 1..Len(bs) |-> bs[i].sentence.str]
BlockActions(bs) == [i \in 1..Len(bs) |-> bs[i].action]

\* N >= 1 blocks, each with a non-empty sentence text, END_SUMMARY after the last
WellFormed(o) ==
  /\ o.kind = "blocks"
  /\ Len(o.blocks) >= 1
  /\ \A i \in 1..Len(o.blocks) : HasSentence(o.blocks[i])
  /\ o.tail # "none"

\* no sentence text of the output spells a delimiter
DelimiterFree(o) ==
  \A i \in 1..Len(o.blocks) : ~ContainsDelimiter(o.blocks[i].sentence.str)

OnlyAfterEndSummary(s) ==
  /\ IndexOf(s, END_SUMMARY) # 0
  /\ Contains(s, "z")
  /\ \A i \in 1..Len(s) : s[i] = "z" => i > IndexOf(s, END_SUMMARY)

NoEntryHas(entries, unit) ==
  \A i \in 1..Len(entries) :
    ~Contains(entries[i].sentence, unit) /\ ~Contains(entries[i].action.str, unit)

\* C2: text that occurs only after the first END_SUMMARY is in no sentence
\* and no action of the result, in the structured and in the fallback path,
\* whichever revision of the parser ran.
C2_NothingAfterEndSummary ==
  (parser # "none" /\ script.type = "string" /\ OnlyAfterEndSummary(script.str))
  => NoEntryHas(returned.entries, "z")

\* C2 for the parser of app.js and part_000 alone
C2_AppRevision ==
  (parser = "app" /\ script.type = "string" /\ OnlyAfterEndSummary(script.str))
  => NoEntryHas(returned.entries, "z")

(* -- the fragments of a text, stated without the code's split -- *)
\* positions of s inside a run of white space that starts right after . ! ?
Separator(s) ==
  {p \in 1..Len(s) :
     /\ IsSpace(s[p])
     /\ \E q \in 1..(p - 1) :
          IsPunct(s[q]) /\ \A k \in (q + 1)..p : IsSpace(s[k])}

\* the positions of s in the fragment that starts at i, up to its last
\* position that is not white space
Inside(s, sep, i) ==
  {j \in i..Len(s) : ~IsSpace(s[j]) /\ \A k \in i..j : k \notin sep}

\* first positions of the fragments that are not all white space
FragmentStarts(s, sep) ==
  {i \in 1..Len(s) :
     /\ i \notin sep
     /\ i = 1 \/ (i - 1) \in sep
     /\ Inside(s, sep, i) # {}}

\* the fragment that starts at i, without surrounding white space
FragmentAt(s, sep, i) ==
  Let(Inside(s, sep, i), LAMBDA inside :
    SubSeq(s, Nth(inside, 1), Nth(inside, Cardinality(inside))))

\* one entry with action null per fragment, in the order of the text
FragmentEntries(string) ==
  Let(string, LAMBDA s :
    Let(Separator(s), LAMBDA sep :
      Let(FragmentStarts(s, sep), LAMBDA starts :
        [k \in 1..Cardinality(starts) |->
           Entry(FragmentAt(s, sep, Nth(starts, k)), Null)])))

\* the text before the first END_SUMMARY (all of it when there is none)
BeforeEndSummary(s) ==
  IF Contains(s, END_SUMMARY)
  THEN SubSeq(s, 1, (CHOOSE i \in 1..Len(s) :
                       s[i] = END_SUMMARY
                       /\ \A k \in 1..(i - 1) : s[k] # END_SUMMARY) - 1)
  ELSE s

\* no block yielded an entry: the structured path of the revision found nothing
NoBlockYields ==
  /\ script.type = "string"
  /\ parser = "app" =>
       StructuredEntries(BlockParts(TruncateAtEndSummary(Trim(script.str)))) = <<>>
  /\ parser = "part_001" =>
       StructuredEntries_part001(BlockParts(TruncateAtEndSummary(Trim(script.str)))) = <<>>

AllSpace(s) == \A i \in 1..Len(s) : IsSpace(s[i])

IsEntry(e) ==
  /\ DOMAIN e = {"sentence", "action"}
  /\ e.sentence \in Seq({e.sentence[i] : i \in 1..Len(e.sentence)})
  /\ e.action.isNull \in BOOLEAN

\* C4: the parser never throws; an empty string, a string of white space
\* and a non-string value give the empty sequence, any other string a
\* sequence of entries.
C4_NeverThrows ==
  parser # "none"
  => /\ ~returned.threw
     /\ (script.type # "string" \/ AllSpace(script.str)) => returned.entries = <<>>
     /\ \A i \in 1..Len(returned.entries) : IsEntry(returned.entries[i])

C4_Witness ==
  /\ parser = "app"
  /\ script.type = "object"
  /\ returned = Returned(<<>>)

\* generated outputs whose sentence texts are plain
PlainBlocks(o) == o.kind = "blocks" /\ DelimiterFree(o)

\* C5 as stated: every entry has a non-empty sentence, a block without a
\* sentence field or with an empty one contributes no entry, and the
\* entries of the other blocks are returned.
C5_Original ==
  (parser = "app" /\ PlainBlocks(modelOutput))
  => /\ \A i \in 1..Len(returned.entries) : returned.entries[i].sentence # <<>>
     /\ Sentences(returned.entries) = BlockTexts(SentenceBlocks(modelOutput))

\* the blocks whose sentence survives the trim of part_001
HasVisibleSentence(b) == ~b.sentence.isNull /\ ~AllSpace(b.sentence.str)
VisibleTexts(o) ==
  LET bs == SelectSeq(o.blocks, HasVisibleSentence)
  IN [i \in 1..Len(bs) |-> Trim(bs[i].sentence.str)]

\* C5 amended: every entry has a non-empty sentence; when at least one block
\* yields a sentence, the blocks without one contribute no entry and the
\* others' entries are returned in order (when none does, the fallback of
\* C3 applies to the text, markup included).
C5_NonEmptySentences ==
  /\ parser # "none"
       => \A i \in 1..Len(returned.entries) : returned.entries[i].sentence # <<>>
  /\ (parser = "app" /\ PlainBlocks(modelOutput)
        /\ SentenceBlocks(modelOutput) # <<>>)
       => Sentences(returned.entries) = BlockTexts(SentenceBlocks(modelOutput))
  /\ (parser = "part_001" /\ PlainBlocks(modelOutput)
        /\ VisibleTexts(modelOutput) # <<>>)
       => Sentences(returned.entries) = VisibleTexts(modelOutput)

C5_Witness ==
  /\ parser = "app"
  /\ PlainBlocks(modelOutput)
  /\ Len(modelOutput.blocks) = 2
  /\ modelOutput.blocks[1].sentence = Str(<<>>)
  /\ HasSentence(modelOutput.blocks[2])
  /\ Len(returned.entries) = 1

\* C6: a block with a non-empty sentence and no action field gives an entry
\* with action null, and an entry's action is that of its own block.
C6_ActionOfOwnBlock ==
  /\ (parser = "app" /\ PlainBlocks(modelOutput)
        /\ SentenceBlocks(modelOutput) # <<>>)
       => Actions(returned.entries) = BlockActions(SentenceBlocks(modelOutput))
  /\ (parser = "app" /\ modelOutput.kind = "blocks")
       => \A i \in 1..Len(returned.entries) :
            ~returned.entries[i].action.isNull
            => \E k \in 1..Len(modelOutput.blocks) :
                 modelOutput.blocks[k].action = returned.entries[i].action
  /\ (parser = "app" /\ script.type = "string" /\ ~Contains(script.str, "action"))
       => \A i \in 1..Len(returned.entries) : returned.entries[i].action.isNull

C6_Witness ==
  /\ parser = "app"
  /\ PlainBlocks(modelOutput)
  /\ Len(modelOutput.blocks) = 2
  /\ HasSentence(modelOutput.blocks[1]) /\ ~modelOutput.blocks[1].action.isNull
  /\ HasSentence(modelOutput.blocks[2]) /\ modelOutput.blocks[2].action.isNull
  /\ Len(returned.entries) = 2
  /\ returned.entries[2].action.isNull

(* ====================================================================== *)
(* Properties of POST /summaries, checked under Spec.                     *)
(* ====================================================================== *)
\* a field that is a string with something else than blanks in it
NonBlankString(v) == v \in {"words", "link"}

Posted(r) == pc[r] # "idle"

\* C7: a request with neither a non-blank string text nor a non-blank string
\* url is answered 400, and no URL fetch, chat call, TTS call, upload or
\* Story.create is ever made for it.
C7_MissingInputRejected ==
  \A r \in Reqs :
    (Posted(r) /\ ~NonBlankString(body[r].text) /\ ~NonBlankString(body[r].url))
    => /\ response[r] = <<400>>
       /\ calls[r] = NoCalls
       /\ \A i \in 1..Len(stories) : stories[i].request # r

C7_Witness ==
  \E r \in Reqs :
    /\ pc[r] = "done"
    /\ body[r].text = "number" /\ body[r].url = "blank"
    /\ response[r] = <<400>>

\* C8: in app.js, when the chat model's answer is empty or parses to zero
\* entries, the request is answered 502 and no TTS call, upload or
\* Story.create is made for it.
C8_EmptyScriptIs502 ==
  \A r \in Reqs :
    (/\ revision = "app"
     /\ summary[r]["Single"].st = "done"
     /\ parseStructuredScript(JsString(summary[r]["Single"].str)).entries = <<>>)
    => /\ response[r] = <<502>>
       /\ calls[r].tts = 0 /\ calls[r].upload = 0 /\ calls[r].create = 0
       /\ \A i \in 1..Len(stories) : stories[i].request # r

C8_Witness ==
  \E r \in Reqs :
    /\ revision = "app"
    /\ summary[r]["Single"] = Answered(ScriptCut)
    /\ response[r] = <<502>>
    /\ calls[r].chat = 1 /\ calls[r].tts = 0

\* C9: when speech synthesis or upload fails for a sentence, the request is
\* answered with an error status and Story.create is never called for it; a
\* persisted Story has, for every parsed sentence, a section whose audio
\* was uploaded.
C9_NoStoryAfterFailure ==
  /\ \A r \in Reqs :
       (\E s \in SlotsOf(revision) : task[r][s].phase = "failed")
       => /\ response[r] = <<500>>
          /\ calls[r].create = 0
          /\ \A i \in 1..Len(stories) : stories[i].request # r
  /\ \A i \in 1..Len(stories) :
       \A s \in SlotsOf(revision) :
         /\ Len(stories[i].sections[s]) = Len(parsed[stories[i].request][s])
         /\ \A k \in 1..Len(stories[i].sections[s]) :
              stories[i].sections[s][k].key \in bucket

C9_Witness ==
  \E r \in Reqs :
    /\ revision = "part_000"
    /\ task[r]["Girl"].phase = "failed"
    /\ Len(task[r]["Girl"].out) = 1
    /\ task[r]["Brain"].phase = "done"
    /\ response[r] = <<500>>
    /\ calls[r].create = 0

\* C10: in part_000, where the three ttsAndUploadSections run concurrently,
\* each persona's stored sections are as many as its parsed entries and the
\* i-th section carries the i-th parsed sentence, whatever the order in
\* which the TTS and upload calls complete.
C10_SectionsInNarrationOrder ==
  revision = "part_000" =>
    /\ \A r \in Reqs : \A p \in PersonaSet :
         /\ Len(task[r][p].out) <= Len(parsed[r][p])
         /\ \A k \in 1..Len(task[r][p].out) :
              task[r][p].out[k].text = parsed[r][p][k].sentence
    /\ \A i \in 1..Len(stories) : \A p \in PersonaSet :
         /\ Len(stories[i].sections[p]) = Len(parsed[stories[i].request][p])
         /\ \A k \in 1..Len(stories[i].sections[p]) :
              stories[i].sections[p][k].text
                = parsed[stories[i].request][p][k].sentence

C10_Witness ==
  /\ revision = "part_000"
  /\ Len(stories) = 1
  /\ Len(stories[1].sections["Brain"]) = 2
  /\ Len(stories[1].sections["Girl"]) = 2
  /\ Len(stories[1].sections["Financer"]) = 1
  /\ stories[1].sections["Girl"][1].text # stories[1].sections["Girl"][2].text

(* -------------------------- GET /summaries ---------------------------- *)
\* the confluencer parameter: absent, or a string of characters
Chars(v) == v.str
BrainName == <<"B", "r", "a", "i", "n">>
GirlName == <<"G", "i", "r", "l">>
FinancerName == <<"F", "i", "n", "a", "n", "c", "e", "r">>
QueryValues ==
  {JsUndefined, JsString(<<>>), JsString(BrainName), JsString(GirlName),
   JsString(<<"G", "I", "R", "L">>), JsString(FinancerName),
   JsString(<<"B", "o", "y">>),
   JsString(<<"g", "i", "r", "l", "f", "r", "i", "e", "n", "d">>)}
\* only part_000 reads the parameter
QueriesOf(rev) == IF rev = "part_000" THEN QueryValues ELSE {JsUndefined}

Lower(c) ==
  CASE c = "B" -> "b" [] c = "F" -> "f" [] c = "G" -> "g"
    [] c = "I" -> "i" [] c = "L" -> "l" [] c = "R" -> "r" [] OTHER -> c
ToLowerCase(s) == [i \in 1..Len(s) |-> Lower(s[i])]
Includes(s, pat) ==
  \E i \in 0..(Len(s) - Len(pat)) : SubSeq(s, i + 1, i + Len(pat)) = pat
\* /pat/i.test(s)
TestIgnoreCase(pat, s) == Includes(ToLowerCase(s), ToLowerCase(pat))

\* String(req.query.confluencer || 'Brain'), then the two tests
selectPersona(v) ==
  Let(IF Truthy(v) THEN Chars(v) ELSE BrainName, LAMBDA personaRaw :
    IF TestIgnoreCase(GirlName, personaRaw) THEN "Girl"
    ELSE IF TestIgnoreCase(FinancerName, personaRaw) THEN "Financer"
    ELSE "Brain")

\* audio references met on the read path: `/audio/${filename}` of the
\* revisions that kept the mp3 on disk, and a presigned GET URL
LocalPath(id) == [form |-> "path", id |-> id]
Presigned(id) == [form |-> "presigned", id |-> id]
presignAudio(key) == Presigned(key.id)

\* documents written by the revisions before the deployed one:
\* { text, audio: `/audio/${filename}` } by part_002 and part_001,
\* { text, key: filename } by app.js, per-persona lists by part_000
OnDisk(name) ==
  [request |-> name, title |-> <<"a">>, sourceUrl |-> "absent",
   sections |-> [NoEntries EXCEPT !["Single"] =
     <<[text |-> <<"a">>, key |-> Absent, audio |-> LocalPath(<<name, "Single", 1>>),
        action |-> Null]>>]]
InBucket(name) ==
  [request |-> name, title |-> <<"a">>, sourceUrl |-> "absent",
   sections |-> [NoEntries EXCEPT !["Single"] =
     <<Section(<<"a">>, Filename(<<name, "Single", 1>>), Str(<<"h">>)),
       Section(<<"b", ".">>, Filename(<<name, "Single", 2>>), Null)>>]]
PerPersona(name) ==
  [request |-> name, title |-> <<"b">>, sourceUrl |-> "link",
   sections |-> [NoEntries EXCEPT
     !["Brain"] = <<Section(<<"b">>, SecureUrl(<<name, "Brain", 1>>), Null)>>,
     !["Financer"] = <<Section(<<"a">>, SecureUrl(<<name, "Financer", 1>>), Str(<<"h">>))>>]]
Archive(rev) ==
  CASE rev = "part_002" -> <<OnDisk("old1")>>
    [] rev = "app" -> <<OnDisk("old1"), InBucket("old2")>>
    [] OTHER -> <<OnDisk("old1"), InBucket("old2"), PerPersona("old3")>>

\* $sample: { size: 10 }
SampleSize == 10
\* a collection larger than the sample
Crowd == [i \in 1..(SampleSize + 1) |-> OnDisk("old" \o ToString(i))]

\* the collections a revision may be started on
Names(collection) == {collection[i].request : i \in 1..Len(collection)}
Collections(rev) ==
  {SelectSeq(Archive(rev), LAMBDA d : d.request \in names) :
     names \in {n \in SUBSET Names(Archive(rev)) : Cardinality(n) <= MaxStored}}
  \cup {Crowd}

\* Story.find({}) gives every document; $sample gives SampleSize of them,
\* or all when there are no more (their order is shuffled afterwards)
Kth(idx, k) == CHOOSE i \in idx : Cardinality({j \in idx : j <= i}) = k
Picked(collection, idx) ==
  [k \in 1..Cardinality(idx) |-> collection[Kth(idx, k)]]
Samples(collection) ==
  IF Len(collection) <= SampleSize THEN {collection}
  ELSE {Picked(collection, idx) :
          idx \in {x \in SUBSET (1..Len(collection)) : Cardinality(x) = SampleSize}}
Found(rev, collection) ==
  IF rev = "part_002" THEN Samples(collection) ELSE {collection}

\* [a[i], a[j]] = [a[j], a[i]]
Overwrite(a, i, j) == [a EXCEPT ![i] = a[j]]
Swap(a, i, j) == [a EXCEPT ![i] = a[j], ![j] = a[i]]

\* Math.floor(Math.random() * (i + 1)) for each i of the loop: any index up
\* to i.  Arrays longer than MaxDrawn are shuffled with the two extreme
\* streams of draws only (always the first index, always i itself)
Draws(n) ==
  IF n <= MaxDrawn
  THEN {f \in [2..n -> 1..n] : \A i \in 2..n : f[i] <= i}
  ELSE {[i \in 2..n |-> 1], [i \in 2..n |-> i]}

\* for (let i = a.length - 1; i > 0; i--) { j = ...; swap }
RECURSIVE ShuffleFrom(_, _, _)
ShuffleFrom(a, i, draws) ==
  IF i < 2 THEN a
  ELSE Let(Swap(a, i, draws[i]), LAMBDA b : ShuffleFrom(b, i - 1, draws))
shuffle(arr, draws) == ShuffleFrom(arr, Len(arr), draws)

\* app.js: const audio = s.key ? await presignAudio(s.key, 3600) : s.audio;
\* return { ...s, audio }
withUrl(s) ==
  [s EXCEPT !.audio = IF s.key.form # "absent" THEN presignAudio(s.key) ELSE s.audio]

\* part_000: s.key.includes('res.cloudinary.com'), s.key.endsWith('.mp3')
IncludesCloudinary(key) == key.form = "secure_url"
EndsWithMp3(key) == key.form \in {"filename", "secure_url", "path"}
\* part_000: { text: s.text, action: s.action ?? null, audio }
normalized(s) ==
  [text |-> s.text, action |-> s.action, key |-> Absent,
   audio |-> IF s.key.form # "absent" /\ (IncludesCloudinary(s.key) \/ EndsWithMp3(s.key))
             THEN s.key ELSE s.audio]
\* part_000: the persona's list, or the legacy sections when it is empty
chosen(story, p) ==
  IF story.sections[p] # <<>> THEN story.sections[p] ELSE story.sections["Single"]

\* one story of the response body
Listed(rev, story, p) ==
  CASE rev = "app" ->
         [request |-> story.request, title |-> story.title,
          sourceUrl |-> story.sourceUrl,
          sections |-> [i \in 1..Len(story.sections["Single"]) |->
                          withUrl(story.sections["Single"][i])]]
    [] rev = "part_000" ->
         [request |-> story.request, title |-> story.title,
          sourceUrl |-> IF story.sourceUrl = "absent" THEN "null" ELSE story.sourceUrl,
          sections |-> [i \in 1..Len(chosen(story, p)) |-> normalized(chosen(story, p)[i])]]
    [] OTHER ->
         [request |-> story.request, title |-> story.title,
          sourceUrl |-> story.sourceUrl, sections |-> story.sections["Single"]]
\* docs.map(...)
Mapped(rev, result, p) == [i \in 1..Len(result) |-> Listed(rev, result[i], p)]

\* res.json(...) or res.status(500).json(...) ends the handler
Answer(g, status, stories_) ==
  /\ listed' = [listed EXCEPT ![g] = <<[status |-> status, body |-> stories_]>>]
  /\ gpc' = [gpc EXCEPT ![g] = "done"]

\* the handler up to its first await: the persona is resolved (part_000)
\* and the collection is asked for
Get(g) ==
  /\ gpc[g] \in {"idle", "done"}
  /\ \E q \in QueriesOf(revision) :
       /\ query' = [query EXCEPT ![g] = q]
       /\ persona' = [persona EXCEPT ![g] =
            IF revision = "part_000" THEN selectPersona(q) ELSE "Brain"]
  /\ gpc' = [gpc EXCEPT ![g] = "find"]
  /\ docs' = [docs EXCEPT ![g] = [snapshot |-> <<>>, result |-> <<>>]]
  /\ listed' = [listed EXCEPT ![g] = <<>>]
  /\ UNCHANGED <<parserVars, postVars>>

\* Story.find (Story.aggregate in part_002) settles.  app.js goes on to
\* presign; the other revisions map, shuffle and answer
FindDone(g) ==
  /\ gpc[g] = "find"
  /\ \E ok \in Settles("find") :
       IF ~ok
       THEN /\ Answer(g, 500, <<>>)
            /\ UNCHANGED docs
       ELSE \E result \in Found(revision, stories) :
              /\ docs' = [docs EXCEPT ![g] = [snapshot |-> stories, result |-> result]]
              /\ IF revision = "app"
                 THEN /\ gpc' = [gpc EXCEPT ![g] = "presign"]
                      /\ UNCHANGED listed
                 ELSE \E draws \in Draws(Len(result)) :
                        Answer(g, 200, shuffle(Mapped(revision, result, persona[g]), draws))
  /\ UNCHANGED <<parserVars, postVars, query, persona>>

\* app.js: the Promise.all over the presigned sections settles; the stories
\* are shuffled and sent
PresignDone(g) ==
  /\ gpc[g] = "presign"
  /\ \E ok \in Settles("presign") :
       IF ~ok
       THEN Answer(g, 500, <<>>)
       ELSE \E draws \in Draws(Len(docs[g].result)) :
              Answer(g, 200, shuffle(Mapped(revision, docs[g].result, persona[g]), draws))
  /\ UNCHANGED <<parserVars, postVars, query, persona, docs>>

\* one POST with one script, and reads; the database calls may fail
QuietEnvironment ==
  [bodies |-> {<<"words", "absent">>, <<"absent", "link">>},
   chat |-> [s \in Slots |->
               IF s \in {"Single", "Brain"} THEN {ChatAnswers(JsString(ScriptOne))}
               ELSE {ChatAnswers(JsString(ScriptCut))}],
   faulty |-> {"find", "presign", "create"}]

InitStore ==
  /\ modelOutput = [kind |-> "value", blocks |-> <<>>, tail |-> "none",
                    pieces |-> <<>>, value |-> JsNull]
  /\ script = JsNull
  /\ parser = "none"
  /\ returned = Returned(<<>>)
  /\ \E rev \in {"part_002", "app", "part_000"} :
       \E stored \in Collections(rev) :
         InitService(rev, IF rev = "part_002" THEN {} ELSE {"r1"},
                     QuietEnvironment, stored)

NextStore ==
  \/ Next
  \/ \E g \in Readers : Get(g) \/ FindDone(g) \/ PresignDone(g)

SpecStore == InitStore /\ [][NextStore]_vars

(* ---------------------------------------------------------------------- *)
(* C11: concurrent requests do not interfere                              *)
(* ---------------------------------------------------------------------- *)
\* the documents built so far: those stored and those handed to
\* Story.create and not yet settled
Handed == {StoryOf(r) : r \in {q \in Reqs : pc[q] = "create"}}
Stored == {stories[i] : i \in 1..Len(stories)}
Documents == Stored \cup Handed

\* the audio references a document's sections hold
KeysOf(d) ==
  UNION {{d.sections[s][i].key : i \in 1..Len(d.sections[s])} : s \in Slots}

\* the document's sections are those of its own request's parsed script
OwnSections(d) ==
  \A s \in Slots :
    /\ Len(d.sections[s]) = Len(parsed[d.request][s])
    /\ \A i \in 1..Len(d.sections[s]) :
         /\ d.sections[s][i].text = parsed[d.request][s][i].sentence
         /\ d.sections[s][i].action = parsed[d.request][s][i].action
         /\ d.sections[s][i].key \in bucket

\* C11: under every interleaving of two POST /summaries requests, each
\* document (stored, or handed to Story.create) holds exactly the sections
\* of its own request's parsed script, and no audio key is referenced by
\* the sections of two different documents
C11_NoInterference ==
  /\ \A d \in Documents : OwnSections(d)
  /\ \A d, e \in Documents : d # e => KeysOf(d) \cap KeysOf(e) = {}
  /\ \A i, j \in 1..Len(stories) : i # j => stories[i].request # stories[j].request

\* both requests were given different scripts, ran interleaved, and both
\* stories are stored
C11_Witness ==
  /\ Len(stories) = 2
  /\ parsed["r1"]["Brain"] # parsed["r2"]["Brain"]
  /\ stories[1].sections["Brain"] # <<>>
  /\ stories[2].sections["Brain"] # <<>>

(* ---------------------------------------------------------------------- *)
(* C12: the stored collection only grows, one record per 201              *)
(* ---------------------------------------------------------------------- *)
StatusOf(r) == IF response[r] = <<>> THEN 0 ELSE response[r][Len(response[r])]
Answered200(g) == listed[g] # <<>> /\ listed[g][1].status = 200

\* what one step may do to the collection
GrowsByOne ==
  /\ Len(stories') = Len(stories) + 1
  /\ SubSeq(stories', 1, Len(stories)) = stories
StepKeepsStories ==
  /\ stories' # stories =>
       /\ GrowsByOne
       /\ \E r \in Reqs : response[r] = <<>> /\ response'[r] = <<201>>
       /\ UNCHANGED <<gpc, listed>>
  /\ \A r \in Reqs :
       response'[r] # response[r] =>
         IF response'[r] = <<201>> THEN GrowsByOne ELSE stories' = stories
  /\ \A g \in Readers :
       (gpc'[g] # gpc[g] \/ listed'[g] # listed[g]) => stories' = stories

\* C12: across POST and GET requests no stored Story is modified or
\* deleted; the collection grows by exactly one record with each POST
\* answered 201, and by none with a GET or with a POST answered otherwise
C12_StoriesOnlyGrow == [][StepKeepsStories]_vars

\* a collection that held documents, a POST answered 201 and a GET
\* answered after it with the grown collection
C12_Witness ==
  /\ Len(stories) >= 2
  /\ StatusOf("r1") = 201
  /\ stories[Len(stories)].request = "r1"
  /\ Answered200("g1")
  /\ Len(listed["g1"][1].body) = Len(stories)

(* ---------------------------------------------------------------------- *)
(* C13: every section is delivered with a playable audio URL              *)
(* ---------------------------------------------------------------------- *)
\* a URL or path a client can fetch; not undefined, not a bare object key
Playable(ref) == ref.form \in {"presigned", "secure_url", "path"}

\* C13: every section GET /summaries returns carries an audio value that is
\* a playable URL string, never undefined and never a bare storage object
\* key, and the documents read are still stored as they were
C13_PlayableAudio ==
  \A g \in Readers :
    Answered200(g) =>
      /\ \A i \in 1..Len(listed[g][1].body) :
           \A k \in 1..Len(listed[g][1].body[i].sections) :
             Playable(listed[g][1].body[i].sections[k].audio)
      /\ SubSeq(stories, 1, Len(docs[g].snapshot)) = docs[g].snapshot

(* ---------------------------------------------------------------------- *)
(* C14: the response is a permutation of the collection                   *)
(* ---------------------------------------------------------------------- *)
\* the stories of body are those of collection, each exactly once
PermutationOf(body_, collection) ==
  /\ Len(body_) = Len(collection)
  /\ \A i \in 1..Len(collection) :
       Cardinality({k \in 1..Len(body_) :
                      /\ body_[k].request = collection[i].request
                      /\ body_[k].title = collection[i].title}) = 1
\* the stories of body are distinct stories of collection
SelectionOf(body_, collection) ==
  /\ \A k \in 1..Len(body_) :
       \E i \in 1..Len(collection) :
         /\ body_[k].request = collection[i].request
         /\ body_[k].title = collection[i].title
  /\ \A k, l \in 1..Len(body_) : k # l => body_[k].request # body_[l].request

\* C14 as stated: whatever the random draws, the response holds every Story
\* of the collection that was read exactly once, and nothing else
C14_Original ==
  \A g \in Readers :
    Answered200(g) => PermutationOf(listed[g][1].body, docs[g].snapshot)

\* C14 amended: that holds of app.js and part_000 (Story.find); part_002
\* ($sample) answers with SampleSize distinct stored stories when the
\* collection holds more, and with a permutation of all of them otherwise
C14_PermutationOrSample ==
  \A g \in Readers :
    Answered200(g) =>
      IF revision = "part_002" /\ Len(docs[g].snapshot) > SampleSize
      THEN /\ Len(listed[g][1].body) = SampleSize
           /\ SelectionOf(listed[g][1].body, docs[g].snapshot)
      ELSE PermutationOf(listed[g][1].body, docs[g].snapshot)

\* a reader was answered with three stories in another order than stored
C14_Witness ==
  /\ Answered200("g1")
  /\ Len(docs["g1"].snapshot) = 3
  /\ listed["g1"][1].body[1].request = docs["g1"].snapshot[3].request
  /\ listed["g1"][1].body[2].request = docs["g1"].snapshot[1].request

(* ---------------------------------------------------------------------- *)
(* C15: the persona a query parameter resolves to                         *)
(* ---------------------------------------------------------------------- *)
PersonaNames == {ToLowerCase(BrainName), ToLowerCase(GirlName), ToLowerCase(FinancerName)}
Recognised(v) == Truthy(v) /\ ToLowerCase(Chars(v)) \in PersonaNames

\* C15: the parameter resolves to one of Brain, Girl and Financer, and to
\* Brain whenever it is absent or is not a persona's name
C15_DefaultsToBrain ==
  \A g \in Readers :
    (revision = "part_000" /\ gpc[g] # "idle") =>
      /\ persona[g] \in PersonaSet
      /\ ~Recognised(query[g]) => persona[g] = "Brain"

(* ---------------------------------------------------------------------- *)
(* C16: one persona with content is enough                                *)
(* ---------------------------------------------------------------------- *)
\* the scripts a multi-persona request received, parsed
ParsedScript(r, p) == parseStructuredScript(JsString(summary[r][p].str)).entries

\* C16: a multi-persona POST is answered 502 only when none of Brain, Girl
\* and Financer has a script that parses to a non-empty sequence, and a
\* stored Story holds an empty list for each persona without content
C16_AnyPersonaIsEnough ==
  \A r \in Reqs :
    revision = "part_000" =>
      /\ StatusOf(r) = 502 => \A p \in PersonaSet : ParsedScript(r, p) = <<>>
      /\ \A d \in Stored : \A p \in PersonaSet :
           (d.request = r /\ ParsedScript(r, p) = <<>>) => d.sections[p] = <<>>

(* ---------------------------------------------------------------------- *)
(* C17: the title is the first parsed sentence                            *)
(* ---------------------------------------------------------------------- *)
\* the first narration, in the order Brain, Girl, Financer, with an entry
FirstWithContent(entries) ==
  IF revision = "app" THEN "Single"
  ELSE IF entries["Brain"] # <<>> THEN "Brain"
  ELSE IF entries["Girl"] # <<>> THEN "Girl"
  ELSE "Financer"

\* C17: the title of every Story (stored, or handed to Story.create) is
\* the sentence of the first parsed entry: of the one script in app.js, of
\* the first persona in the order Brain, Girl, Financer that has an entry
\* in part_000
C17_TitleIsFirstSentence ==
  \A d \in Documents :
    /\ parsed[d.request][FirstWithContent(parsed[d.request])] # <<>>
    /\ d.title = parsed[d.request][FirstWithContent(parsed[d.request])][1].sentence

\* a stored Story whose Brain script had no entry: the title is Girl's
\* first sentence, and Girl has two
C17_Witness ==
  /\ Len(stories) = 1
  /\ parsed["r1"]["Brain"] = <<>>
  /\ Len(parsed["r1"]["Girl"]) = 2
  /\ stories[1].title = parsed["r1"]["Girl"][1].sentence

(* ---------------------------------------------------------------------- *)
(* C18: sourceUrl names the page the content came from                    *)
(* ---------------------------------------------------------------------- *)
\* C18: the stored sourceUrl is the request's url exactly when the content
\* sent to the model was fetched from it, and null when the content was
\* the request's text
C18_SourceUrlOnlyWhenFetched ==
  \A d \in Stored :
    revision = "part_000" =>
      IF inputContent[d.request] = "page"
      THEN d.sourceUrl = body[d.request].url
      ELSE d.sourceUrl = "null"

(* ---------------------------------------------------------------------- *)
(* C19: no stored Story has an empty section list                         *)
(* ---------------------------------------------------------------------- *)
\* C19: every Story stored by a POST answered 201 has, in each of its
\* section lists (sections; sectionsBrain, sectionsGirl and
\* sectionsFinancer in part_000), at least one Section, each with a
\* non-empty text
C19_SectionsNonEmpty ==
  \A d \in Stored :
    \A s \in SlotsOf(revision) :
      /\ d.sections[s] # <<>>
      /\ \A i \in 1..Len(d.sections[s]) : d.sections[s][i].text # <<>>

(* ---------------------------------------------------------------------- *)
(* C20: exactly one response                                              *)
(* ---------------------------------------------------------------------- *)
AtMostOneResponse ==
  \A r \in Reqs :
    /\ Len(response[r]) <= 1
    /\ \A i \in 1..Len(response[r]) : response[r][i] \in {201, 400, 502, 500}
    /\ pc[r] = "done" <=> Len(response[r]) = 1

\* C20: a POST never sends two responses, its response has status 201,
\* 400, 502 or 500, and a request that arrived is answered, wherever a
\* call of the pipeline fails
C20_ExactlyOneResponse ==
  /\ []AtMostOneResponse
  /\ \A r \in Reqs : (body[r] # [text |-> "absent", url |-> "absent"] \/ pc[r] # "idle")
                       ~> (Len(response[r]) = 1)

\* two narrations of one request failed: the first failure was answered
\* 500, the second found the request answered
C20_Witness ==
  /\ response["r1"] = <<500>>
  /\ Cardinality({p \in PersonaSet : task["r1"][p].phase = "failed"}) >= 2

(* ---------------------------------------------------------------------- *)
(* C21: the other narrations of a failed multi-persona request            *)
(* ---------------------------------------------------------------------- *)
\* a ttsAndUploadSections task of the request threw
NarrationFailed(r) ==
  /\ revision = "part_000"
  /\ \E p \in PersonaSet : task[r][p].phase = "failed"

\* the sentences the request has to narrate
SentencesOf(r) ==
  Len(parsed[r]["Brain"]) + Len(parsed[r]["Girl"]) + Len(parsed[r]["Financer"])

\* C21 as stated: once a multi-persona POST has failed because a persona's
\* TTS or upload call threw and the 500 was sent, the other personas' tasks
\* issue no further TTS or upload call for that request
C21_NoCallAfterFailure ==
  \A r \in Reqs :
    (NarrationFailed(r) /\ StatusOf(r) = 500) => calls[r].late = 0

\* C21: once a multi-persona POST has failed because a persona's TTS or
\* upload call threw, it has been answered 500 once, Story.create is never
\* called and no Story of the request is stored; the other personas' tasks
\* are not cancelled: they go on issuing TTS and upload calls after the
\* response, at most one TTS call per sentence and one upload per TTS call
C21_FailedRequestOnlyNarrates ==
  \A r \in Reqs :
    NarrationFailed(r) =>
      /\ response[r] = <<500>>
      /\ pc[r] = "done"
      /\ calls[r].create = 0
      /\ \A d \in Stored : d.request # r
      /\ calls[r].tts <= SentencesOf(r)
      /\ calls[r].upload <= calls[r].tts
      /\ calls[r].late <= calls[r].tts + calls[r].upload

\* Brain's first TTS call threw and the request was answered 500, after
\* which Girl's task issued calls and narrated her script to its end
C21_Witness ==
  /\ NarrationFailed("r1")
  /\ response["r1"] = <<500>>
  /\ task["r1"]["Brain"] = [phase |-> "failed", out |-> <<>>]
  /\ task["r1"]["Girl"].phase = "done"
  /\ calls["r1"].late >= 2

(* ---------------------------------------------------------------------- *)
(* C22: the sections of app.js against the Story model                    *)
(* ---------------------------------------------------------------------- *)
\* C22: each section that the POST handler of app.js passes to
\* Story.create carries every field that the Story model of
\* src/models/story.js requires (text and audio), so that the document
\* passes schema validation
C22_SectionsCarryRequiredFields ==
  revision = "app" =>
    \A d \in Handed :
      /\ \A i \in 1..Len(d.sections["Single"]) :
           \A f \in RequiredFields("app") : HasField(d.sections["Single"][i], f)
      /\ Validates("app", d)

(* ---------------------------------------------------------------------- *)
(* C23: a blank text and a url                                            *)
(* ---------------------------------------------------------------------- *)
\* the text field is absent, empty or whitespace-only
BlankText(v) == v \in {"absent", "empty", "blank"}

\* C23: when the request's text is absent, empty or whitespace-only and a
\* non-blank url is given, POST /summaries fetches the url, and the content
\* sent to the chat model is the text extracted from the page
C23_BlankTextFetchesUrl ==
  \A r \in Reqs :
    (pc[r] # "idle" /\ BlankText(body[r].text) /\ body[r].url = "link") =>
      /\ calls[r].fetch = 1
      /\ calls[r].chat > 0 => inputContent[r] = "page"

(* ---------------------------------------------------------------------- *)
(* C24: uploaded audio of an answered request                             *)
(* ---------------------------------------------------------------------- *)
\* the audio objects the request has uploaded to storage
UploadedBy(r) == {k \in bucket : k.id[1] = r}

\* C24: when a POST /summaries request has sent its response, every audio
\* object it uploaded to storage is referenced by a section of a persisted
\* Story; a request that fails at sentence k leaves no unreferenced object
\* for sentences 1..k-1
C24_UploadsReferenced ==
  \A r \in Reqs :
    pc[r] = "done" =>
      \A k \in UploadedBy(r) : \E d \in Stored : k \in KeysOf(d)
====
